---- MODULE Spec2Model ----
(***************************************************************************)
(* snooze: a countdown sleep.  Three threads (main / countdown engine, the *)
(* UI thread of start_ui, the signal thread of install_signal_handlers)    *)
(* talk over two unbounded crossbeam channels.  Time is counted in ticks   *)
(* of half a second, so that REFRESH_TIME (1 s) is 2 ticks and a runtime   *)
(* shorter than the refresh period exists.  The duration library of       *)
(* lib.rs is modelled on exact decimal numbers, a Duration being its whole *)
(* seconds and its nanoseconds; LibSpec calls it on lists of arguments,   *)
(* FmtSpec calls the countdown formatter on pairs of durations, StartSpec  *)
(* is main from its first line to the entry of the loop.                   *)
(***************************************************************************)
EXTENDS Integers, Sequences, FiniteSets, TLC

(* ------------------------------ bounds -------------------------------- *)
\* longest requested runtime, in ticks
MaxRuntime == 2
\* number of signals the environment delivers in one run
MaxSignals == 2
\* the clock stops advancing here (unless the engine still sleeps)
MaxNow == MaxRuntime + 1
\* longest list of duration arguments
MaxArgs == 2
\* the formatter is called on every whole second up to this one
MaxShownSecs == 2

(* ----------------------------- constants ------------------------------ *)
REFRESH_TIME == 2
SIGINT == 2
SIGQUIT == 3
SIGUSR1 == 10
SIGTERM == 15
SIGTSTP == 20
start_time == 0

TermSignals == {SIGTERM, SIGQUIT, SIGINT}
known_signals == {SIGUSR1, SIGTSTP} \cup TermSignals

\* enum SnoozeMessage; signal is meaningful for Terminate only
PrintTime == [type |-> "PrintTime", signal |-> 0]
Suspend == [type |-> "Suspend", signal |-> 0]
Terminate(s) == [type |-> "Terminate", signal |-> s]

MinSecond(a, b) == b

Min(a, b) == IF a < b THEN a ELSE b

\* no try_recv in this iteration yet
NotYet == [event |-> "none", behind |-> 0]

VARIABLES
    \* environment
    now,             \* Instant::now(), in ticks
    stopped,         \* the process is stopped (SIGSTOP), no thread runs
    nsig,            \* signals the Signals iterator has yielded so far
    \* the duration library, called on its own
    number,          \* the duration arguments (SnoozeArgs.number)
    parsed,          \* parse_pause_arg of each argument
    total,           \* sum_pause_args of the arguments
    libpc,           \* "off" | "args" | "parsed" | "summed" | "given" | "shown"
    intervals,       \* the durations format_remaining_time is called on
    shown,           \* for each, the RemainingTime and the String made of it
    \* main's locals
    quiet, invoked_as_sleep, desired_runtime,
    mainpc, close_signal, remaining, wake, result, raised,
    \* channels
    loop_chan, ui_chan,
    \* signal thread
    rpc, signalid, closed,
    \* UI thread
    uipc, did_print, clean_exit, cursor,
    \* history of what was observable
    nrendered,       \* countdown lines written to the terminal
    newline,         \* the trailing newline was written
    uiTermCode,      \* code of the Terminate the UI consumed, <<>> if none
    lastFg,          \* what the UI's last call of is_foreground() returned
    termSeen,        \* code of the Terminate the engine consumed, 0 if none
    termEnq,         \* a Terminate was put on the loop channel in-loop
    engineRefresh,   \* the engine sent a refresh request
    usr1Routed,      \* the router translated a print-now signal
    received,        \* what try_recv gave in this iteration of the loop,
                     \* and how many events it left on the loop channel
    uiEnq,           \* the Suspend and Terminate events the router has put
                     \* on the UI channel
    order            \* shutdown steps of main, in the order they happened

envvars == <<now, stopped, nsig>>
libvars == <<number, parsed, total, libpc, intervals, shown>>
cfgvars == <<quiet, invoked_as_sleep, desired_runtime, libvars>>
mainvars == <<mainpc, close_signal, remaining, wake, result, raised>>
chanvars == <<loop_chan, ui_chan>>
sigvars == <<rpc, signalid, closed>>
uivars == <<uipc, did_print, clean_exit, cursor>>
histrest == <<nrendered, newline, uiTermCode, lastFg, termSeen, termEnq,
              engineRefresh, usr1Routed, order>>
histvars == <<histrest, received, uiEnq>>
vars == <<envvars, cfgvars, mainvars, chanvars, sigvars, uivars, histvars>>
\* everything but the library's variables
rtvars == <<envvars, quiet, invoked_as_sleep, desired_runtime, mainvars,
            chanvars, sigvars, uivars, histvars>>

(* ------------------------------ main ---------------------------------- *)
end_time == start_time + desired_runtime
short_sleep == REFRESH_TIME > desired_runtime

quiet_mode_flags_only == quiet \/ invoked_as_sleep

quiet_mode == quiet \/ short_sleep \/ invoked_as_sleep

InstantSubNeverZero(a, b) == IF a > b THEN a - b ELSE 1

\* Instant - Instant saturates at zero
InstantSub(a, b) == IF a > b THEN a - b ELSE 0

InLoop == {"loop", "stop", "check", "refresh", "sleep", "sleeping"}
Ended == {"returned", "killed"}
Alive == mainpc \notin Ended
Running == Alive /\ ~stopped

\* Sender::send / try_send on the UI channel: an unbounded channel is never
\* full; with the receiver dropped the message is lost and the error ignored
UiSend(m) == IF uipc = "done" THEN ui_chan ELSE Append(ui_chan, m)
\* the record of the router's sends that reached the UI channel
UiEnqueued(m) == IF uipc = "done" THEN uiEnq ELSE uiEnq \cup {m}

\* the state main is in when the countdown loop is entered, for a runtime
\* sum_pause_args has accepted (never zero)
MainInit ==
    /\ now = start_time
    /\ stopped = FALSE
    /\ nsig = 0
    /\ quiet \in BOOLEAN
    /\ invoked_as_sleep \in BOOLEAN
    /\ desired_runtime \in 1..MaxRuntime
    /\ mainpc = "loop"
    /\ close_signal = <<>>
    /\ remaining = 0
    /\ wake = 0
    /\ result = "none"
    /\ raised = 0
    /\ loop_chan = <<>>
    /\ ui_chan = <<>>
    /\ rpc = "wait"
    /\ signalid = 0
    /\ closed = FALSE
    /\ uipc = "recv"
    /\ did_print = FALSE
    /\ clean_exit = TRUE
    /\ cursor = "visible"
    /\ nrendered = 0
    /\ newline = FALSE
    /\ uiTermCode = <<>>
    /\ lastFg = FALSE
    /\ termSeen = 0
    /\ termEnq = FALSE
    /\ engineRefresh = FALSE
    /\ usr1Routed = FALSE
    /\ received = NotYet
    /\ uiEnq = {}
    /\ order = <<>>

Init ==
    /\ number = <<>> /\ parsed = <<>> /\ total = <<>> /\ libpc = "off"
    /\ intervals = <<>> /\ shown = <<>>
    /\ MainInit

\* loop_receiver.try_recv() -> Err(Empty).  The router never puts PrintTime
\* on the loop channel and holds loop_sender as long as it runs, so the
\* Ok(_) arm and Err(Disconnected) do not differ from this one
MainRecvEmpty ==
    /\ Running /\ mainpc = "loop"
    /\ loop_chan = <<>>
    /\ received' = [event |-> "Empty", behind |-> 0]
    /\ mainpc' = "check"
    /\ UNCHANGED <<envvars, cfgvars, close_signal, remaining, wake, result,
                   raised, chanvars, sigvars, uivars, histrest, uiEnq>>

\* loop_receiver.try_recv() -> Ok(Suspend)
MainRecvSuspend ==
    /\ Running /\ mainpc = "loop"
    /\ loop_chan # <<>> /\ Head(loop_chan).type = "Suspend"
    /\ loop_chan' = Tail(loop_chan)
    /\ received' = [event |-> "Suspend", behind |-> Len(loop_chan')]
    /\ mainpc' = "stop"
    /\ UNCHANGED <<envvars, cfgvars, close_signal, remaining, wake, result,
                   raised, ui_chan, sigvars, uivars, histrest, uiEnq>>

\* emulate_default_handler(SIGTSTP): the process stops until SIGCONT
MainStop ==
    /\ Running /\ mainpc = "stop"
    /\ stopped' = TRUE
    /\ mainpc' = "check"
    /\ UNCHANGED <<now, nsig, cfgvars, close_signal, remaining,
                   wake, result, raised, chanvars, sigvars, uivars, histvars>>

AfterTerminateNoBreak == "check"

\* where the engine goes on consuming Terminate: break
AfterTerminate == "final"

\* loop_receiver.try_recv() -> Ok(Terminate(signal))
MainRecvTerminate ==
    /\ Running /\ mainpc = "loop"
    /\ loop_chan # <<>> /\ Head(loop_chan).type = "Terminate"
    /\ loop_chan' = Tail(loop_chan)
    /\ close_signal' = <<Head(loop_chan).signal>>
    /\ termSeen' = Head(loop_chan).signal
    /\ received' = [event |-> "Terminate", behind |-> Len(loop_chan')]
    /\ mainpc' = AfterTerminate
    /\ UNCHANGED <<envvars, cfgvars, remaining, wake, result, raised, ui_chan,
                   sigvars, uivars, nrendered, newline, uiTermCode, lastFg,
                   termEnq, engineRefresh, usr1Routed, uiEnq, order>>

\* remaining = end_time - Instant::now(); break if zero
MainCheck ==
    /\ Running /\ mainpc = "check"
    /\ remaining' = InstantSub(end_time, now)
    /\ mainpc' = IF remaining' = 0 THEN "final"
                 ELSE IF ~quiet_mode THEN "refresh" ELSE "sleep"
    /\ UNCHANGED <<envvars, cfgvars, close_signal, wake, result, raised,
                   chanvars, sigvars, uivars, histvars>>

\* ui_sender.try_send(PrintTime)
MainRefresh ==
    /\ Running /\ mainpc = "refresh"
    /\ ui_chan' = UiSend(PrintTime)
    /\ engineRefresh' = TRUE
    /\ mainpc' = "sleep"
    /\ UNCHANGED <<envvars, cfgvars, close_signal, remaining, wake, result,
                   raised, loop_chan, sigvars, uivars, nrendered, newline,
                   uiTermCode, lastFg, termSeen, termEnq, usr1Routed,
                   received, uiEnq, order>>

\* thread::sleep(remaining.min(REFRESH_TIME)) begins
MainSleep ==
    /\ Running /\ mainpc = "sleep"
    /\ wake' = now + Min(remaining, REFRESH_TIME)
    /\ remaining' = 0
    /\ mainpc' = "sleeping"
    /\ UNCHANGED <<envvars, cfgvars, close_signal, result, raised, chanvars,
                   sigvars, uivars, histvars>>

\* thread::sleep returns, not before the requested time has passed
MainWake ==
    /\ Running /\ mainpc = "sleeping"
    /\ now >= wake
    /\ wake' = 0
    /\ received' = NotYet
    /\ mainpc' = "loop"
    /\ UNCHANGED <<envvars, cfgvars, close_signal, remaining, result, raised,
                   chanvars, sigvars, uivars, histrest, uiEnq>>

\* ui_sender.send(Terminate(close_signal.unwrap_or(0)))
MainFinal ==
    /\ Running /\ mainpc = "final"
    /\ ui_chan' = UiSend(Terminate(IF close_signal = <<>> THEN 0
                                   ELSE close_signal[1]))
    /\ order' = Append(order, "ui_terminate")
    /\ received' = NotYet
    /\ mainpc' = "close"
    /\ UNCHANGED <<envvars, cfgvars, close_signal, remaining, wake, result,
                   raised, loop_chan, sigvars, uivars, nrendered, newline,
                   uiTermCode, lastFg, termSeen, termEnq, engineRefresh,
                   usr1Routed, uiEnq>>

HandleCloseNoop == closed

\* Handle::close marks the Signals instance closed and wakes its iterator
HandleClose == TRUE

\* signals_handle.close()
MainClose ==
    /\ Running /\ mainpc = "close"
    /\ closed' = HandleClose
    /\ order' = Append(order, "router_close")
    /\ mainpc' = "join_ui"
    /\ UNCHANGED <<envvars, cfgvars, close_signal, remaining, wake, result,
                   raised, chanvars, rpc, signalid, uivars, nrendered, newline,
                   uiTermCode, lastFg, termSeen, termEnq, engineRefresh,
                   usr1Routed, received, uiEnq>>

JoinedAtOnce(threadpc) == TRUE

\* JoinHandle::join returns once the thread has ended
Joined(threadpc) == threadpc = "done"

\* ui_thread.join()
MainJoinUi ==
    /\ Running /\ mainpc = "join_ui"
    /\ Joined(uipc)
    /\ order' = Append(order, "ui_joined")
    /\ mainpc' = "join_router"
    /\ UNCHANGED <<envvars, cfgvars, close_signal, remaining, wake, result,
                   raised, chanvars, sigvars, uivars, nrendered, newline,
                   uiTermCode, lastFg, termSeen, termEnq, engineRefresh,
                   usr1Routed, received, uiEnq>>

\* signals_thread.join()
MainJoinRouter ==
    /\ Running /\ mainpc = "join_router"
    /\ Joined(rpc)
    /\ order' = Append(order, "router_joined")
    /\ mainpc' = "epilogue"
    /\ UNCHANGED <<envvars, cfgvars, close_signal, remaining, wake, result,
                   raised, chanvars, sigvars, uivars, nrendered, newline,
                   uiTermCode, lastFg, termSeen, termEnq, engineRefresh,
                   usr1Routed, received, uiEnq>>

\* if let Some(signal_) = close_signal: emulate_default_handler(signal_),
\* the default action of a terminating signal ends the process
MainRaise ==
    /\ Running /\ mainpc = "epilogue"
    /\ close_signal # <<>>
    /\ raised' = close_signal[1]
    /\ order' = Append(order, "raise")
    /\ mainpc' = "killed"
    /\ UNCHANGED <<envvars, cfgvars, close_signal, remaining, wake, result,
                   chanvars, sigvars, uivars, nrendered, newline, uiTermCode,
                   lastFg, termSeen, termEnq, engineRefresh, usr1Routed, received, uiEnq>>

\* SnoozeResult::Good
MainReturn ==
    /\ Running /\ mainpc = "epilogue"
    /\ close_signal = <<>>
    /\ result' = "Good"
    /\ order' = Append(order, "return")
    /\ mainpc' = "returned"
    /\ UNCHANGED <<envvars, cfgvars, close_signal, remaining, wake, raised,
                   chanvars, sigvars, uivars, nrendered, newline, uiTermCode,
                   lastFg, termSeen, termEnq, engineRefresh, usr1Routed, received, uiEnq>>

MainStep ==
    \/ MainRecvEmpty \/ MainRecvSuspend \/ MainStop \/ MainRecvTerminate
    \/ MainCheck \/ MainRefresh \/ MainSleep \/ MainWake
    \/ MainFinal \/ MainClose \/ MainJoinUi \/ MainJoinRouter
    \/ MainRaise \/ MainReturn

(* --------------------------- signal thread ---------------------------- *)
\* `for signalid in &mut signals` yields a signal when one was delivered to
\* the process; a signal delivered while the process is stopped, or while
\* the thread is busy with an earlier one, is yielded afterwards

RouterPrintTimeToLoop ==
    /\ Running /\ rpc = "wait"
    /\ nsig < MaxSignals
    /\ nsig' = nsig + 1
    /\ ui_chan' = UiSend(PrintTime)
    /\ loop_chan' = Append(loop_chan, PrintTime)
    /\ usr1Routed' = TRUE
    /\ UNCHANGED <<now, stopped, cfgvars, mainvars, sigvars,
                   uivars, nrendered, newline, uiTermCode, lastFg, termSeen,
                   termEnq, engineRefresh, received, uiEnq, order>>

\* SIGUSR1 => ui_sender.send(PrintTime)
RouterPrintTime ==
    /\ Running /\ rpc = "wait"
    /\ nsig < MaxSignals
    /\ nsig' = nsig + 1
    /\ ui_chan' = UiSend(PrintTime)
    /\ usr1Routed' = TRUE
    /\ UNCHANGED <<now, stopped, cfgvars, mainvars, loop_chan, sigvars,
                   uivars, nrendered, newline, uiTermCode, lastFg, termSeen,
                   termEnq, engineRefresh, received, uiEnq, order>>

\* SIGTSTP => ui_sender.send(Suspend), first of the two sends
RouterSuspend ==
    /\ Running /\ rpc = "wait"
    /\ nsig < MaxSignals
    /\ nsig' = nsig + 1
    /\ signalid' = SIGTSTP
    /\ ui_chan' = UiSend(Suspend)
    /\ uiEnq' = UiEnqueued(Suspend)
    /\ rpc' = "send_loop"
    /\ UNCHANGED <<now, stopped, cfgvars, mainvars, loop_chan, closed,
                   uivars, histrest, received>>

\* SIGTERM | SIGQUIT | SIGINT => ui_sender.send(Terminate(signalid))
RouterTerminate ==
    /\ Running /\ rpc = "wait"
    /\ nsig < MaxSignals
    /\ nsig' = nsig + 1
    /\ \E s \in TermSignals :
         /\ signalid' = s
         /\ ui_chan' = UiSend(Terminate(s))
         /\ uiEnq' = UiEnqueued(Terminate(s))
    /\ rpc' = "send_loop"
    /\ UNCHANGED <<now, stopped, cfgvars, mainvars, loop_chan, closed,
                   uivars, histrest, received>>

\* loop_sender.send(..), second of the two sends; main owns the receiver
\* until it returns, so the send succeeds
RouterSendLoop ==
    /\ Running /\ rpc = "send_loop"
    /\ loop_chan' = Append(loop_chan, IF signalid = SIGTSTP THEN Suspend
                                      ELSE Terminate(signalid))
    /\ termEnq' = (termEnq \/ (signalid \in TermSignals /\ mainpc \in InLoop))
    /\ signalid' = 0
    /\ rpc' = "wait"
    /\ UNCHANGED <<envvars, cfgvars, mainvars, ui_chan, closed,
                   uivars, nrendered, newline, uiTermCode, lastFg, termSeen,
                   engineRefresh, usr1Routed, received, uiEnq, order>>

\* the Signals iterator ends once its handle is closed; signals that were
\* already delivered may or may not be yielded before it does
RouterExit ==
    /\ Running /\ rpc = "wait"
    /\ closed
    /\ rpc' = "done"
    /\ UNCHANGED <<envvars, cfgvars, mainvars, chanvars, signalid, closed,
                   uivars, histvars>>

RouterStep ==
    \/ RouterPrintTime \/ RouterSuspend \/ RouterTerminate
    \/ RouterSendLoop \/ RouterExit

(* ------------------------------ UI thread ----------------------------- *)
CleanExitAlways(signal) == TRUE

\* clean_exit = signal == 0
CleanExit(signal) == signal = 0

\* ui_receiver.recv() -> Ok(Terminate(signal)).  recv blocks on an empty
\* channel; its Err arm needs every ui_sender dropped, and main keeps its
\* own until after the join of this thread
UiTerminate ==
    /\ Running /\ uipc = "recv"
    /\ ui_chan # <<>> /\ Head(ui_chan).type = "Terminate"
    /\ ui_chan' = Tail(ui_chan)
    /\ clean_exit' = CleanExit(Head(ui_chan).signal)
    /\ uiTermCode' = <<Head(ui_chan).signal>>
    /\ uipc' = "exit"
    /\ UNCHANGED <<envvars, cfgvars, mainvars, loop_chan, sigvars, did_print,
                   cursor, nrendered, newline, lastFg, termSeen, termEnq,
                   engineRefresh, usr1Routed, received, uiEnq, order>>

\* ui_receiver.recv() -> Ok(Suspend): stdout.execute(cursor::Show)
UiSuspend ==
    /\ Running /\ uipc = "recv"
    /\ ui_chan # <<>> /\ Head(ui_chan).type = "Suspend"
    /\ ui_chan' = Tail(ui_chan)
    /\ cursor' = "visible"
    /\ UNCHANGED <<envvars, cfgvars, mainvars, loop_chan, sigvars, uipc,
                   did_print, clean_exit, histvars>>

\* ui_receiver.recv() -> Ok(PrintTime)
UiPrintTime ==
    /\ Running /\ uipc = "recv"
    /\ ui_chan # <<>> /\ Head(ui_chan).type = "PrintTime"
    /\ ui_chan' = Tail(ui_chan)
    /\ uipc' = "print"
    /\ UNCHANGED <<envvars, cfgvars, mainvars, loop_chan, sigvars, did_print,
                   clean_exit, cursor, histvars>>

RendersAlways(foreground) == TRUE

\* whether the PrintTime arm goes on to write: if !is_foreground() continue
Renders(foreground) == foreground

\* the body of the PrintTime arm: print_remaining_time hides the cursor and
\* writes the line; a failed write may or may not have hidden the cursor
UiPrint ==
    /\ Running /\ uipc = "print"
    /\ \E foreground \in BOOLEAN :
         /\ lastFg' = foreground
         /\ IF ~Renders(foreground)
            THEN UNCHANGED <<did_print, cursor, nrendered>>
            ELSE \E ok \in BOOLEAN :
                   IF ok
                   THEN /\ cursor' = "hidden"
                        /\ did_print' = TRUE
                        /\ nrendered' = nrendered + 1
                   ELSE /\ cursor' \in {cursor, "hidden"}
                        /\ UNCHANGED <<did_print, nrendered>>
    /\ uipc' = "recv"
    /\ UNCHANGED <<envvars, cfgvars, mainvars, chanvars, sigvars, clean_exit,
                   newline, uiTermCode, termSeen, termEnq, engineRefresh,
                   usr1Routed, received, uiEnq, order>>

\* if clean_exit && did_print && is_foreground() { println!() }
PrintsNewline(clean, printed, foreground) == clean /\ printed /\ foreground

\* after the loop: the newline, cursor::Show, and the thread ends, dropping
\* ui_receiver with whatever the channel still holds
UiExit ==
    /\ Running /\ uipc = "exit"
    /\ \E foreground \in BOOLEAN :
         /\ lastFg' = foreground
         /\ newline' = PrintsNewline(clean_exit, did_print, foreground)
    /\ cursor' = "visible"
    /\ ui_chan' = <<>>
    /\ uipc' = "done"
    /\ UNCHANGED <<envvars, cfgvars, mainvars, loop_chan, sigvars, did_print,
                   clean_exit, nrendered, uiTermCode, termSeen, termEnq,
                   engineRefresh, usr1Routed, received, uiEnq, order>>

UiStep == UiTerminate \/ UiSuspend \/ UiPrintTime \/ UiPrint \/ UiExit

(* ----------------------------- environment ---------------------------- *)
\* the monotonic clock advances; the clock is read by the countdown loop
\* only, so it is not followed past the loop
Tick ==
    /\ mainpc \in InLoop
    /\ now < MaxNow \/ (mainpc = "sleeping" /\ now < wake)
    /\ now' = now + 1
    /\ UNCHANGED <<stopped, nsig, cfgvars, mainvars, chanvars,
                   sigvars, uivars, histvars>>

\* SIGCONT resumes the stopped process
Resume ==
    /\ Alive /\ stopped
    /\ stopped' = FALSE
    /\ UNCHANGED <<now, nsig, cfgvars, mainvars, chanvars,
                   sigvars, uivars, histvars>>

EnvStep == Tick \/ Resume

Next == MainStep \/ RouterStep \/ UiStep \/ EnvStep

Spec == Init /\ [][Next]_vars

\* the scheduler runs every thread of a running process; signals, the
\* clock and SIGCONT are the environment's and are not forced
FairSpec ==
    /\ Init /\ [][Next]_vars
    /\ WF_vars(MainStep) /\ WF_vars(UiStep)
    /\ WF_vars(RouterSendLoop) /\ WF_vars(RouterExit)

\* as FairSpec, and time passes and every stop is followed by a SIGCONT
LiveSpec ==
    /\ Init /\ [][Next]_vars
    /\ WF_vars(MainStep) /\ WF_vars(UiStep)
    /\ WF_vars(RouterSendLoop) /\ WF_vars(RouterExit)
    /\ WF_vars(Tick) /\ WF_vars(Resume)

(* ------------------------- duration library --------------------------- *)
\* Option<T>: None is <<>>, Some(x) is <<x>>
None == <<>>
Some(x) == <<x>>

\* a str is a sequence of one-character strings
Digits == {"0", "1", "2", "3", "4", "5", "6", "7", "8", "9"}
Letters == {"s", "m", "h", "d", "y"}
White == {" ", "\t", "\n"}

DigitVal(c) ==
    CASE c = "0" -> 0 [] c = "1" -> 1 [] c = "2" -> 2 [] c = "3" -> 3
      [] c = "4" -> 4 [] c = "5" -> 5 [] c = "6" -> 6 [] c = "7" -> 7
      [] c = "8" -> 8 [] c = "9" -> 9

RECURSIVE Pow10(_)
Pow10(n) == IF n = 0 THEN 1 ELSE 10 * Pow10(n - 1)

\* str::trim
RECURSIVE TrimStart(_)
TrimStart(str) ==
    IF str # <<>> /\ Head(str) \in White THEN TrimStart(Tail(str)) ELSE str
RECURSIVE TrimEnd(_)
TrimEnd(str) ==
    IF str # <<>> /\ str[Len(str)] \in White
    THEN TrimEnd(SubSeq(str, 1, Len(str) - 1)) ELSE str
Trim(str) == TrimEnd(TrimStart(str))

\* the digits of str read as a decimal integer
RECURSIVE DigitsVal(_)
DigitsVal(str) ==
    IF str = <<>> THEN 0
    ELSE 10 * DigitsVal(SubSeq(str, 1, Len(str) - 1)) + DigitVal(str[Len(str)])

\* <f64 as FromStr>::from_str on the characters above: an optional '-',
\* then digits with at most one '.', at least one digit in all.  The value
\* is (-1)^neg * mant / 10^frac, kept exact
F64FromStr(str) ==
    LET neg == str # <<>> /\ Head(str) = "-"
        body == IF neg THEN Tail(str) ELSE str
        dots == {i \in 1..Len(body) : body[i] = "."}
        ok == /\ \A i \in 1..Len(body) : body[i] \in Digits \cup {"."}
              /\ Cardinality(dots) <= 1
              /\ \E i \in 1..Len(body) : body[i] \in Digits
        dot == IF dots = {} THEN Len(body) + 1 ELSE CHOOSE i \in dots : TRUE
        int == SubSeq(body, 1, dot - 1)
        fra == SubSeq(body, dot + 1, Len(body))
    IN  IF ~ok THEN None
        ELSE Some([neg |-> neg, mant |-> DigitsVal(int \o fra),
                   frac |-> Len(fra)])

\* <SnoozeUnit as FromStr>::from_str
SnoozeUnitFromStr(str) ==
    CASE str = <<"s">> -> Some("Seconds")
      [] str = <<"m">> -> Some("Minutes")
      [] str = <<"h">> -> Some("Hours")
      [] str = <<"d">> -> Some("Days")
      [] OTHER -> None

\* MULTIPLIER_SECONDS, _MINUTES, _HOURS, _DAYS
Multiplier(unit) ==
    CASE unit = "Seconds" -> 1
      [] unit = "Minutes" -> 60
      [] unit = "Hours" -> 60 * 60
      [] unit = "Days" -> 24 * 60 * 60

split_unit(input) ==
    IF input = <<>> THEN None
    ELSE LET unit_char == input[Len(input)]
             str_num == IF unit_char \in Letters
                        THEN SubSeq(input, 1, Len(input) - 1) ELSE input
             str_unit == IF unit_char \in Letters
                         THEN <<unit_char>> ELSE <<"s">>
             num == F64FromStr(str_num)
             unit == SnoozeUnitFromStr(str_unit)
         IN  IF num = None \/ unit = None THEN None
             ELSE Some(<<num[1], unit[1]>>)

\* Duration: whole seconds and the nanoseconds below a second
NanosPerSec == 1000000000
ZERO == [secs |-> 0, nanos |-> 0]

\* (seconds * 1e9).trunc() as u64: the cast saturates, so a value below
\* zero becomes 0; the digits past the ninth decimal are cut off
F64NanosAsU64(x, multiplier) ==
    LET scaled == x.mant * multiplier
        unit == Pow10(x.frac)
        rest == scaled % unit
    IN  IF x.neg THEN ZERO
        ELSE [secs |-> scaled \div unit,
              nanos |-> IF x.frac <= 9 THEN rest * Pow10(9 - x.frac)
                        ELSE rest \div Pow10(x.frac - 9)]

parse_pause_arg(arg) ==
    LET input == Trim(arg)
        split == split_unit(input)
    IN  IF input = <<>> THEN Some(ZERO)
        ELSE IF split = None THEN None
        ELSE Some(F64NanosAsU64(split[1][1], Multiplier(split[1][2])))

\* Duration::checked_add; the u64 of seconds cannot overflow on MaxArgs
\* arguments, each below 2^64 nanoseconds
checked_add(a, b) ==
    LET n == a.nanos + b.nanos
    IN  Some([secs |-> a.secs + b.secs + n \div NanosPerSec,
              nanos |-> n % NanosPerSec])

\* args.iter().try_fold(Duration::ZERO, |acc, arg| ..), from argument i on
RECURSIVE try_fold(_, _, _)
try_fold(args, i, acc) ==
    IF i > Len(args) THEN Some(acc)
    ELSE LET p == parse_pause_arg(args[i])
         IN  IF p = None THEN None
             ELSE LET next == checked_add(acc, p[1])
                  IN  IF next = None THEN None
                      ELSE try_fold(args, i + 1, next[1])

sum_pause_args_keeps_zero(args) == try_fold(args, 1, ZERO)

sum_pause_args(args) ==
    LET v == try_fold(args, 1, ZERO)
    IN  IF v = None THEN None
        ELSE IF v[1] = ZERO THEN None
        ELSE v

\* the arguments the library is called on: the terms of its tests, of the
\* help text, and negative ones
Terms ==
    { <<>>, <<" ">>, <<"0">>, <<"1">>, <<"1", "s">>, <<"5", "s">>,
      <<"0", ".", "5">>, <<"1", "m">>, <<"2", "m">>, <<"3", "h">>,
      <<"4", "d">>, <<"0", ".", "1", "2", "5", "m">>, <<" ", "1", "\t", "\n">>,
      <<"5", "y">>, <<"1", "m", "s">>, <<"s">>, <<"1", "m", "2">>,
      <<"0", " ", "5">>, <<"-", "5">>, <<"-", "1", "m">>, <<"-", "0">> }

ArgLists == UNION {[1..n -> Terms] : n \in 0..MaxArgs}

LibInit ==
    /\ number \in ArgLists
    /\ parsed = <<>> /\ total = <<>> /\ libpc = "args"
    /\ intervals = <<>> /\ shown = <<>>
    /\ MainInit
    /\ ~quiet /\ ~invoked_as_sleep /\ desired_runtime = 1

\* parse_pause_arg on every argument
RunParse ==
    /\ libpc = "args"
    /\ parsed' = [i \in 1..Len(number) |-> parse_pause_arg(number[i])]
    /\ libpc' = "parsed"
    /\ UNCHANGED <<number, total, intervals, shown, rtvars>>

\* sum_pause_args on the list
RunSum ==
    /\ libpc = "parsed"
    /\ total' = sum_pause_args(number)
    /\ libpc' = "summed"
    /\ UNCHANGED <<number, parsed, intervals, shown, rtvars>>

LibNext == RunParse \/ RunSum

LibSpec == LibInit /\ [][LibNext]_vars

(* ------------------------------ startup ------------------------------- *)
\* main from its first line to the entry of the countdown loop.  A thread
\* that is not spawned yet is at "unspawned"; the accepted sum stays in
\* total
StartInit ==
    /\ number \in ArgLists
    /\ parsed = <<>> /\ total = <<>> /\ libpc = "off"
    /\ intervals = <<>> /\ shown = <<>>
    /\ now = start_time /\ stopped = FALSE /\ nsig = 0
    /\ quiet \in BOOLEAN /\ invoked_as_sleep = FALSE /\ desired_runtime = 1
    /\ mainpc = "args"
    /\ close_signal = <<>> /\ remaining = 0 /\ wake = 0
    /\ result = "none" /\ raised = 0
    /\ loop_chan = <<>> /\ ui_chan = <<>>
    /\ rpc = "unspawned" /\ signalid = 0 /\ closed = FALSE
    /\ uipc = "unspawned"
    /\ did_print = FALSE /\ clean_exit = TRUE /\ cursor = "visible"
    /\ nrendered = 0 /\ newline = FALSE /\ uiTermCode = <<>>
    /\ lastFg = FALSE /\ termSeen = 0 /\ termEnq = FALSE
    /\ engineRefresh = FALSE /\ usr1Routed = FALSE /\ order = <<>>
    /\ received = NotYet /\ uiEnq = {}

AfterBadArgsGoOn == "install"

\* where main goes when sum_pause_args gives None: return UserError
AfterBadArgs == "returned"

\* let Some(desired_runtime) = sum_pause_args(&num_args) else { .. }
MainSumArgs ==
    /\ mainpc = "args"
    /\ total' = sum_pause_args(number)
    /\ IF total' = None
       THEN result' = "UserError" /\ mainpc' = AfterBadArgs
       ELSE result' = result /\ mainpc' = "install"
    /\ UNCHANGED <<envvars, quiet, invoked_as_sleep, desired_runtime,
                   number, parsed, libpc, intervals, shown,
                   close_signal, remaining, wake, raised,
                   chanvars, sigvars, uivars, histvars>>

\* install_signal_handlers: Signals::new(..).ok()? gives up before the
\* thread is spawned; main then returns OsError
MainInstallSignals ==
    /\ mainpc = "install"
    /\ \E subscribed \in BOOLEAN :
          IF subscribed
          THEN rpc' = "wait" /\ result' = result /\ mainpc' = "start_ui"
          ELSE rpc' = rpc /\ result' = "OsError" /\ mainpc' = "returned"
    /\ UNCHANGED <<envvars, cfgvars, close_signal, remaining, wake, raised,
                   chanvars, signalid, closed, uivars, histvars>>

\* start_ui spawns the UI thread; the loop comes next
MainStartUi ==
    /\ mainpc = "start_ui"
    /\ uipc' = "recv"
    /\ mainpc' = "loop"
    /\ UNCHANGED <<envvars, cfgvars, close_signal, remaining, wake, result,
                   raised, chanvars, sigvars, did_print, clean_exit, cursor,
                   histvars>>

StartNext == MainSumArgs \/ MainInstallSignals \/ MainStartUi

StartSpec == StartInit /\ [][StartNext]_vars

(* --------------------------- time formatter --------------------------- *)
\* the whole seconds shown: as_secs(), one more if subsec_nanos() is above
\* half a second (saturating_add cannot saturate on the durations below)
total_seconds_carry_low(d) ==
    IF d.nanos > 0 /\ d.nanos < 500000000 THEN d.secs + 1 ELSE d.secs

total_seconds(d) ==
    IF d.nanos > 500000000 THEN d.secs + 1 ELSE d.secs

\* the RemainingTime that format_remaining_time builds
remaining_time(d) ==
    LET hours == total_seconds(d) \div (60 * 60)
        remaining_minutes == total_seconds(d) % (60 * 60)
    IN  [seconds |-> remaining_minutes % 60,
         minutes |-> remaining_minutes \div 60,
         hours |-> hours]

DigitChar(n) ==
    CASE n = 0 -> "0" [] n = 1 -> "1" [] n = 2 -> "2" [] n = 3 -> "3"
      [] n = 4 -> "4" [] n = 5 -> "5" [] n = 6 -> "6" [] n = 7 -> "7"
      [] n = 8 -> "8" [] n = 9 -> "9"

\* "{}" of an unsigned integer
RECURSIVE Decimal(_)
Decimal(n) ==
    IF n < 10 THEN <<DigitChar(n)>>
    ELSE Decimal(n \div 10) \o <<DigitChar(n % 10)>>

\* "{:w}" (fill " ") and "{:0w}" (fill "0"): right-aligned in at least
\* width characters
RECURSIVE Padded(_, _, _)
Padded(str, width, fill) ==
    IF Len(str) >= width THEN str ELSE Padded(<<fill>> \o str, width, fill)

MinutesAloneUnpadded(minutes) ==
    IF minutes >= 1 THEN Decimal(minutes) \o <<":">>
    ELSE <<" ", " ", " ">>

\* the minutes field when there are no hours
MinutesAlone(minutes) ==
    IF minutes >= 10 THEN Decimal(minutes) \o <<":">>
    ELSE IF minutes >= 1 THEN Padded(Decimal(minutes), 2, " ") \o <<":">>
    ELSE <<" ", " ", " ">>

\* <RemainingTime as Display>::fmt
Display(self) ==
    LET hours == IF self.hours >= 1
                 THEN Padded(Decimal(self.hours), 3, " ") \o <<":">>
                 ELSE <<" ", " ", " ", " ">>
        minutes == IF self.hours > 0
                   THEN Padded(Decimal(self.minutes), 2, "0") \o <<":">>
                   ELSE MinutesAlone(self.minutes)
        seconds == IF self.hours > 0 \/ self.minutes > 0
                   THEN Padded(Decimal(self.seconds), 2, "0")
                   ELSE Padded(Decimal(self.seconds), 2, " ")
    IN  hours \o minutes \o seconds

format_remaining_time(d) == Display(remaining_time(d))

\* the durations the formatter is called on: the first seconds, the edges
\* of its layouts and of its tests, each with sub-second parts around half
\* a second
EdgeSecs ==
    {9, 10, 59, 60, 61, 599, 600, 661, 3599, 3600, 7200, 35999, 36000,
     359999, 360000, 604800, 3599999, 3600000}
SubsecNanos == {0, 300000000, 499999999, 500000000, 500000001, 900000000}
Durations ==
    [secs : (0..MaxShownSecs) \cup EdgeSecs, nanos : SubsecNanos]

FmtInit ==
    /\ intervals \in [1..2 -> Durations]
    /\ shown = <<>> /\ libpc = "given"
    /\ number = <<>> /\ parsed = <<>> /\ total = <<>>
    /\ MainInit
    /\ ~quiet /\ ~invoked_as_sleep /\ desired_runtime = 1

\* format_remaining_time on each duration
RunFormat ==
    /\ libpc = "given"
    /\ shown' = [i \in 1..Len(intervals) |->
                    [time |-> remaining_time(intervals[i]),
                     text |-> format_remaining_time(intervals[i])]]
    /\ libpc' = "shown"
    /\ UNCHANGED <<number, parsed, total, intervals, rtvars>>

FmtNext == RunFormat

FmtSpec == FmtInit /\ [][FmtNext]_vars

(* ------------------------------ claims -------------------------------- *)
IsPrefix(p, q) == Len(p) <= Len(q) /\ \A i \in 1..Len(p) : p[i] = q[i]

\* C1: consuming Terminate(s) from the loop channel records s and leaves the
\* loop at once (no refresh request, no sleep after it); the run ends by
\* re-raising a signal iff one was recorded, and it is the recorded one; a
\* run that recorded nothing re-raises nothing and returns Good
TerminateRecordedAndReplayed ==
    /\ termSeen # 0 => close_signal = <<termSeen>> /\ mainpc \notin InLoop
    /\ raised # 0 => mainpc = "killed" /\ close_signal = <<raised>>
    /\ mainpc \in Ended => (raised # 0 <=> close_signal # <<>>)
    /\ mainpc \in Ended /\ close_signal = <<>> =>
           mainpc = "returned" /\ result = "Good" /\ raised = 0
    /\ result # "none" => mainpc = "returned" /\ close_signal = <<>>

TerminateReplayedReached ==
    mainpc = "killed" /\ termSeen = SIGINT /\ raised = SIGINT

\* C2: main's shutdown steps happen in the order final Terminate to the UI,
\* close of the router, join of the UI thread, join of the router thread,
\* then the re-raise or the return; when the signal is about to be re-raised
\* or main has ended, both threads have ended and the cursor is visible
ShutdownOrder ==
    /\ \/ IsPrefix(order, <<"ui_terminate", "router_close", "ui_joined",
                            "router_joined", "raise">>)
       \/ IsPrefix(order, <<"ui_terminate", "router_close", "ui_joined",
                            "router_joined", "return">>)
    /\ Len(order) >= 2 => closed
    /\ Len(order) >= 3 => uipc = "done" /\ cursor = "visible"
    /\ Len(order) >= 4 => rpc = "done"
    /\ mainpc \in Ended \cup {"epilogue"} =>
           /\ Len(order) >= 4
           /\ uipc = "done" /\ rpc = "done" /\ cursor = "visible"

ShutdownOrderReached ==
    /\ order = <<"ui_terminate", "router_close", "ui_joined", "router_joined",
                 "raise">>
    /\ nrendered > 0

\* C3: once the engine has left its loop, the UI thread and the router
\* thread end, both joins return and main ends, whatever signals arrive
\* before or during the shutdown
LeftLoop == mainpc \notin InLoop
NoShutdownDeadlock ==
    LeftLoop ~> (mainpc \in Ended /\ uipc = "done" /\ rpc = "done")

\* the UI ended on a Terminate of the router, not on the engine's final one
ShutdownAfterRouterTerminateReached ==
    /\ mainpc = "returned"
    /\ uiTermCode # <<>> /\ uiTermCode[1] \in TermSignals

\* C4: a Terminate the router put on the loop channel while the engine was
\* still in its loop is consumed by the engine, and the run ends by
\* re-raising that signal
TerminateNeverDropped ==
    termEnq /\ mainpc \in Ended =>
        mainpc = "killed" /\ termSeen # 0 /\ raised \in TermSignals

\* C5: whenever the process is stopped by the engine's emulation of the stop
\* signal, the cursor is visible
StoppedCursorVisible == stopped => cursor = "visible"

\* C6: the UI thread writes the trailing newline iff a refresh was rendered,
\* the Terminate it consumed carried code 0 and the process was foreground
\* when it left the loop; before that no newline is written
NewlineIffCleanExit ==
    /\ uipc # "done" => ~newline
    /\ uipc = "done" =>
           (newline <=> (nrendered > 0 /\ uiTermCode = <<0>> /\ lastFg))

NewlineReached == uipc = "done" /\ newline

\* C7: in quiet mode (the flag, a runtime shorter than the refresh period,
\* or the name sleep) the engine sends no refresh request, so a line is
\* rendered only after a print-now signal; a consumed Terminate is still
\* recorded, and the run still ends with the final Terminate sent to the UI,
\* the UI thread ended and the cursor visible
QuietModeSilent ==
    (quiet \/ desired_runtime < REFRESH_TIME \/ invoked_as_sleep) =>
        /\ ~engineRefresh
        /\ nrendered > 0 => usr1Routed
        /\ termSeen # 0 => close_signal = <<termSeen>>
        /\ mainpc \in Ended =>
               /\ Len(order) >= 1 /\ order[1] = "ui_terminate"
               /\ uipc = "done" /\ cursor = "visible"

\* a short runtime alone: print-now rendered, Terminate handled, cleaned up
QuietModeReached ==
    /\ ~quiet /\ ~invoked_as_sleep /\ desired_runtime < REFRESH_TIME
    /\ nrendered > 0 /\ mainpc = "killed"

\* C8: the PrintTime arm, when is_foreground() is false, writes nothing,
\* leaves the cursor and did_print as they are, and the UI goes back to
\* waiting for the next message
BackgroundRefreshDiscarded ==
    [][(uipc = "print" /\ uipc' # "print" /\ ~lastFg') =>
           /\ nrendered' = nrendered /\ newline' = newline
           /\ cursor' = cursor /\ did_print' = did_print
           /\ ui_chan' = ui_chan /\ uipc' = "recv"]_vars

\* the engine's refresh request was consumed in the background
BackgroundRefreshReached ==
    /\ engineRefresh /\ ~usr1Routed
    /\ uipc = "recv" /\ ui_chan = <<>> /\ ~lastFg
    /\ nrendered = 0 /\ cursor = "visible"

\* the sum of f[1..n]
RECURSIVE SumTo(_, _)
SumTo(f, n) == IF n = 0 THEN 0 ELSE f[n] + SumTo(f, n - 1)

\* C9: sum_pause_args is invalid for the empty list, for a list with an
\* invalid term anywhere, and for a total of zero; otherwise it is the sum
\* of what parse_pause_arg gives for each term
SumIsSumOfTerms ==
    libpc = "summed" =>
        LET n == Len(number)
            bad == \E i \in 1..n : parsed[i] = None
            secs == SumTo([i \in 1..n |-> parsed[i][1].secs], n)
            nanos == SumTo([i \in 1..n |-> parsed[i][1].nanos], n)
        IN  IF n = 0 \/ bad THEN total = None
            ELSE IF secs = 0 /\ nanos = 0 THEN total = None
            ELSE total = Some([secs |-> secs + nanos \div NanosPerSec,
                               nanos |-> nanos % NanosPerSec])

\* two halves of a second are summed to one second
SumOfTermsReached ==
    /\ libpc = "summed"
    /\ number = << <<"0", ".", "5">>, <<"0", ".", "5">> >>
    /\ total = Some([secs |-> 1, nanos |-> 0])

\* a term whose number is below zero
NegativeTerm(arg) ==
    LET input == Trim(arg)
    IN  /\ input # <<>> /\ Head(input) = "-"
        /\ \E i \in 1..Len(input) : input[i] \in Digits \ {"0"}

\* C10: parse_pause_arg is invalid for a term with a negative number, and
\* so is sum_pause_args of a list that holds one
NegativeTermRejected ==
    \A i \in 1..Len(number) :
        NegativeTerm(number[i]) =>
            /\ libpc \in {"parsed", "summed"} => parsed[i] = None
            /\ libpc = "summed" => total = None

\* number * multiplier seconds cut to whole nanoseconds, for the number
\* (-1)^neg * mant / 10^frac; a product below zero keeps its sign
TermSeconds(x, multiplier) ==
    LET whole == (x.mant * multiplier) \div Pow10(x.frac)
        part == (x.mant * multiplier) % Pow10(x.frac)
        nanos == IF x.frac <= 9 THEN part * Pow10(9 - x.frac)
                 ELSE part \div Pow10(x.frac - 9)
    IN  IF x.neg THEN [secs |-> 0 - whole, nanos |-> 0 - nanos]
        ELSE [secs |-> whole, nanos |-> nanos]

\* what a term parses to by the rules for its last character
TermAsSpecified(arg) ==
    LET term == Trim(arg)
        last == term[Len(term)]
        alphabetic == last \in Letters
        numstr == IF alphabetic THEN SubSeq(term, 1, Len(term) - 1) ELSE term
        num == F64FromStr(numstr)
        mult == CASE ~alphabetic -> 1
                  [] last = "s" -> 1
                  [] last = "m" -> 60
                  [] last = "h" -> 3600
                  [] last = "d" -> 86400
                  [] OTHER -> 0
    IN  IF term = <<>> THEN Some(ZERO)
        ELSE IF mult = 0 \/ num = None THEN None
        ELSE Some(TermSeconds(num[1], mult))

\* C11: a term ending in a letter is valid only if the letter is s, m, h or
\* d and what precedes it is a number; a term not ending in a letter is
\* valid only if all of it is a number, counted in seconds; a valid term
\* parses to number * multiplier seconds cut to whole nanoseconds, and a
\* blank term to zero
TermParsedAsSpecified ==
    libpc \in {"parsed", "summed"} =>
        \A i \in 1..Len(number) : parsed[i] = TermAsSpecified(number[i])

\* C12: the hours, minutes and seconds shown for a duration have minutes
\* and seconds in 0..59 and add up to the duration rounded to the nearest
\* whole second, half a second and more rounding up
RoundsHalfUp ==
    libpc = "shown" =>
        \A i \in 1..Len(intervals) :
            LET t == shown[i].time
                nearest == IF intervals[i].nanos >= 500000000
                           THEN intervals[i].secs + 1 ELSE intervals[i].secs
            IN  /\ t.minutes \in 0..59 /\ t.seconds \in 0..59
                /\ t.hours * 3600 + t.minutes * 60 + t.seconds = nearest

\* C13: for up to 999 hours the string is 9 characters wide in every
\* layout, with the colons in columns 4 and 7; seconds below 10 get a
\* leading zero exactly when minutes or hours are shown, minutes below 10
\* exactly when hours are shown
FixedWidth ==
    libpc = "shown" =>
        \A i \in 1..Len(intervals) :
            LET t == shown[i].time
                text == shown[i].text
            IN  t.hours <= 999 =>
                  /\ Len(text) = 9
                  /\ text[4] = ":" <=> t.hours > 0
                  /\ text[7] = ":" <=> (t.hours > 0 \/ t.minutes > 0)
                  /\ t.seconds < 10 =>
                        text[8] = IF t.hours > 0 \/ t.minutes > 0
                                  THEN "0" ELSE " "
                  /\ t.minutes < 10 =>
                        text[5] = IF t.hours > 0 THEN "0" ELSE " "
                  /\ text[9] = DigitChar(t.seconds % 10)
                  /\ t.hours = 0 => \A k \in 1..3 : text[k] = " "

\* the countdown crosses the hour and the minute
FixedWidthReached ==
    /\ libpc = "shown"
    /\ intervals = <<[secs |-> 3600, nanos |-> 0],
                     [secs |-> 59, nanos |-> 900000000]>>
    /\ shown[1].text = <<" ", " ", "1", ":", "0", "0", ":", "0", "0">>
    /\ shown[2].text = <<" ", " ", " ", " ", " ", "1", ":", "0", "0">>

\* C14: of two durations the longer one is never shown as the
\* lexicographically smaller (hours, minutes, seconds)
Monotone ==
    libpc = "shown" =>
        LET d1 == intervals[1]
            d2 == intervals[2]
            a == shown[1].time
            b == shown[2].time
        IN  (d1.secs < d2.secs \/ (d1.secs = d2.secs /\ d1.nanos <= d2.nanos))
            => \/ a.hours < b.hours
               \/ a.hours = b.hours /\ a.minutes < b.minutes
               \/ a.hours = b.hours /\ a.minutes = b.minutes
                  /\ a.seconds <= b.seconds

\* minutes and seconds fall while the triple grows
MonotoneReached ==
    /\ libpc = "shown"
    /\ intervals = <<[secs |-> 3599, nanos |-> 500000000],
                     [secs |-> 3599, nanos |-> 500000001]>>
    /\ shown[1].time = [hours |-> 0, minutes |-> 59, seconds |-> 59]
    /\ shown[2].time = [hours |-> 1, minutes |-> 0, seconds |-> 0]

\* C15: when the arguments are empty, hold an unparsable term or sum to
\* zero, main returns UserError and neither thread was started; when the
\* subscription to the signals fails, main returns OsError and the UI
\* thread was not started; the loop is entered only after both succeeded
StartupFailures ==
    LET n == Len(number)
        unparsable == \E i \in 1..n : parse_pause_arg(number[i]) = None
        zero == \A i \in 1..n : parse_pause_arg(number[i]) = Some(ZERO)
    IN  /\ mainpc # "args" =>
              (result = "UserError" <=> (n = 0 \/ unparsable \/ zero))
        /\ result = "UserError" =>
              mainpc = "returned" /\ rpc = "unspawned" /\ uipc = "unspawned"
        /\ result = "OsError" =>
              mainpc = "returned" /\ rpc = "unspawned" /\ uipc = "unspawned"
        /\ mainpc = "returned" => result \in {"UserError", "OsError"}
        /\ mainpc = "loop" =>
              result = "none" /\ rpc = "wait" /\ uipc = "recv"
        /\ uipc # "unspawned" => rpc # "unspawned"

\* two terms that parse and sum to zero
UserErrorReached ==
    /\ mainpc = "returned" /\ result = "UserError"
    /\ number = << <<"0">>, <<" ">> >>
    /\ rpc = "unspawned" /\ uipc = "unspawned"

\* C16: the engine does not go to sleep while an event that was on the loop
\* channel at this iteration's try_recv is still there; so a Terminate that
\* was queued behind a Suspend is acted on before the iteration sleeps
DrainedBeforeSleep ==
    mainpc \in {"sleep", "sleeping"} => received.behind = 0

\* C17: once the UI thread has exited and main has ended, the UI took the
\* exit for clean exactly if the engine recorded no terminating signal
UiAgreesWithEngine ==
    uipc = "done" /\ mainpc \in Ended =>
        (clean_exit <=> close_signal = <<>>)

\* C18: the signal thread turns a print-now signal into one PrintTime on
\* the UI channel and nothing on the loop channel, a suspend signal into
\* Suspend on the UI channel and then on the loop channel, a terminating
\* signal into Terminate with its own number on the UI channel and then on
\* the loop channel; a send to the UI channel after the UI thread ended is
\* dropped and the thread goes on.  So the loop channel never holds
\* PrintTime, and the Suspend or Terminate the engine takes from it was put
\* on the UI channel before
RouterTranslation ==
    /\ [](\A i \in 1..Len(loop_chan) : loop_chan[i].type # "PrintTime")
    /\ [][/\ nsig' = nsig + 1 =>
               \E m \in {PrintTime, Suspend} \cup
                        {Terminate(sig) : sig \in TermSignals} :
                  /\ ui_chan' = IF uipc = "done" THEN ui_chan
                                ELSE ui_chan \o <<m>>
                  /\ loop_chan' = loop_chan
                  /\ rpc = "wait"
                  /\ m = PrintTime => rpc' = "wait"
                  /\ m = Suspend => rpc' = "send_loop" /\ signalid' = SIGTSTP
                  /\ m.type = "Terminate" =>
                        rpc' = "send_loop" /\ signalid' = m.signal
          /\ Len(loop_chan') > Len(loop_chan) =>
                  /\ rpc = "send_loop" /\ rpc' = "wait"
                  /\ ui_chan' = ui_chan
                  /\ loop_chan' = loop_chan \o
                        <<IF signalid = SIGTSTP THEN Suspend
                          ELSE Terminate(signalid)>>
                  /\ signalid \in {SIGTSTP} \cup TermSignals
          /\ rpc = "send_loop" /\ rpc' # rpc =>
                  Len(loop_chan') = Len(loop_chan) + 1
          /\ Len(loop_chan') < Len(loop_chan) =>
                  /\ loop_chan' = Tail(loop_chan)
                  /\ Head(loop_chan) \in uiEnq]_vars

\* the UI thread has ended on the first signal, the second send to it was
\* dropped, and the signal thread went on to the loop channel
DroppedSendReached ==
    /\ uipc = "done" /\ rpc = "wait" /\ nsig = 2
    /\ uiEnq = {Terminate(SIGQUIT)}
    /\ Len(loop_chan) = 2 /\ loop_chan[2] = Suspend
    /\ ui_chan = <<>>

\* C19: no step changes the end instant.  In the iteration that handled a
\* Suspend, when the clock read after the resume is at or past the end
\* instant the engine leaves the loop at once with no signal recorded, no
\* refresh request sent and no sleep begun; when it is before the end
\* instant and the mode is not quiet, a refresh request is sent before the
\* sleep
SuspendKeepsEndInstant ==
    [][/\ desired_runtime' = desired_runtime
       /\ (received.event = "Suspend" /\ mainpc = "check"
           /\ mainpc' # "check") =>
              /\ ~stopped
              /\ now >= start_time + desired_runtime =>
                    /\ mainpc' = "final" /\ close_signal' = <<>>
                    /\ ui_chan' = ui_chan /\ wake' = wake
              /\ (now < start_time + desired_runtime /\ ~quiet_mode) =>
                    mainpc' = "refresh"
       /\ (received.event = "Suspend" /\ mainpc = "refresh"
           /\ mainpc' # "refresh") =>
              /\ mainpc' = "sleep"
              /\ ui_chan' = IF uipc = "done" THEN ui_chan
                            ELSE ui_chan \o <<PrintTime>>
       /\ (mainpc # "sleep" /\ mainpc' = "sleep" /\ ~quiet_mode) =>
              mainpc = "refresh"
       /\ (mainpc # "sleeping" /\ mainpc' = "sleeping") => mainpc = "sleep"
      ]_vars

\* stopped before the first refresh and resumed after the end instant: the
\* engine is done without having sent a refresh request
ResumedAfterEndReached ==
    /\ mainpc = "final" /\ received.event = "Suspend" /\ ~stopped
    /\ now > start_time + desired_runtime
    /\ ~quiet_mode /\ ~engineRefresh /\ close_signal = <<>>

====
